---- MODULE Spec2Model ----
(***************************************************************************)
(* Model of datadog_checks/snmp/models.py: the OID lazy facade, the Value  *)
(* wrapper and the Variable pair.  One Variable (an OID and a Value) is    *)
(* constructed and then exercised by a single-threaded caller; `last`      *)
(* records the outcome of the most recent call and `parses` counts the     *)
(* calls made to parse_as_oid_tuple for variable.oid.                      *)
(***************************************************************************)
EXTENDS Integers, Sequences, FiniteSets, TLC

VARIABLES oid, value, parses, last

vars == <<oid, value, parses, last>>

(* ------------------------------ bounds --------------------------------- *)

MaxStrLen == 3

MaxSeqLen == 2

MaxParses == 2

(* ------------------------- input alphabets ----------------------------- *)

Chars == {"1", ".", "x"}

Components == {-1, 1}

HandleComponents == {1}

Payloads == {0, 1}

SeqsUpTo(S, n) == UNION {[1..k -> S] : k \in 0..n}

(* ---------------- representations handed to OID(...) -------------------- *)

TupleValue(items) == [type |-> "tuple", items |-> items]

StrValue(chars) == [type |-> "str", chars |-> chars]

ObjectName(t) == [type |-> "ObjectName", oid |-> t]

ObjectIdentity(t, resolved) == [type |-> "ObjectIdentity", oid |-> t, resolved |-> resolved]

ObjectType(identity) == [type |-> "ObjectType", identity |-> identity]

HandleOids == SeqsUpTo(HandleComponents, MaxSeqLen) \ {<<>>}

ObjectIdentities == {ObjectIdentity(t, r) : t \in HandleOids, r \in BOOLEAN}

ObjectTypes == {ObjectType(i) : i \in ObjectIdentities}

ObjectNames == {ObjectName(t) : t \in HandleOids}

RawValues ==
    {TupleValue(t) : t \in SeqsUpTo(Components, MaxSeqLen)}
        \cup {StrValue(s) : s \in SeqsUpTo(Chars, MaxStrLen)}
        \cup ObjectNames \cup ObjectIdentities \cup ObjectTypes

(* ------------------------------ Asn1 values ----------------------------- *)

SNMP_COUNTER_CLASSES == {"Counter32", "Counter64", "ZeroBasedCounter64"}

SNMP_GAUGE_CLASSES == {"Gauge32", "Integer", "Integer32", "Unsigned32", "CounterBasedGauge64"}

NumericClasses == SNMP_COUNTER_CLASSES \cup SNMP_GAUGE_CLASSES \cup {"TimeTicks"}

SentinelClasses == {"NoSuchInstance", "NoSuchObject", "EndOfMibView"}

Asn1(cls, payload) == [cls |-> cls, payload |-> payload]

noSuchInstance == Asn1("NoSuchInstance", 0)

noSuchObject == Asn1("NoSuchObject", 0)

endOfMibView == Asn1("EndOfMibView", 0)

Asn1Values ==
    {Asn1(c, p) : c \in NumericClasses \cup {"Opaque"}, p \in Payloads}
        \cup {Asn1("OctetString", 0), noSuchInstance, noSuchObject, endOfMibView}

\* What Value(...) is given: a typed value, or an identifier-typed value.
ValueInputs == Asn1Values \cup ObjectNames \cup ObjectIdentities

\* The codec's class hierarchy (issubclass), which the models do not consult.
Bases(cls) ==
    CASE cls \in {"ZeroBasedCounter64", "CounterBasedGauge64"} -> {cls, "Counter64"}
      [] cls = "Integer32" -> {cls, "Integer"}
      [] cls = "Gauge32" -> {cls, "Unsigned32"}
      [] OTHER -> {cls}

TagSet(cls) ==
    CASE cls \in {"Integer", "Integer32"} -> "UNIVERSAL 2"
      [] cls = "OctetString" -> "UNIVERSAL 4"
      [] cls = "Counter32" -> "APPLICATION 1"
      [] cls \in {"Gauge32", "Unsigned32"} -> "APPLICATION 2"
      [] cls = "TimeTicks" -> "APPLICATION 3"
      [] cls = "Opaque" -> "APPLICATION 4"
      [] cls \in {"Counter64", "ZeroBasedCounter64", "CounterBasedGauge64"} -> "APPLICATION 6"
      [] cls = "NoSuchObject" -> "CONTEXT 0"
      [] cls = "NoSuchInstance" -> "CONTEXT 1"
      [] cls = "EndOfMibView" -> "CONTEXT 2"
      [] OTHER -> "NONE"

\* sentinel.isSameTypeWith(x): same tag set (our OID wrapper has none).
isSameTypeWith(sentinel, x) == TagSet(sentinel.cls) = TagSet(x.cls)

(* --------------------------- string helpers ----------------------------- *)

DigitChars == <<"0", "1", "2", "3", "4", "5", "6", "7", "8", "9">>

IsDigit(c) == \E d \in 1..10 : DigitChars[d] = c

DigitValue(c) == (CHOOSE d \in 1..10 : DigitChars[d] = c) - 1

RECURSIVE ParseInt(_)
ParseInt(tok) ==
    IF Len(tok) = 0 THEN 0
    ELSE 10 * ParseInt(SubSeq(tok, 1, Len(tok) - 1)) + DigitValue(tok[Len(tok)])

RECURSIVE IntToStr(_)
IntToStr(n) ==
    IF n < 10 THEN <<DigitChars[n + 1]>>
    ELSE IntToStr(n \div 10) \o <<DigitChars[(n % 10) + 1]>>

RECURSIVE Split(_)
Split(s) ==
    IF \E i \in 1..Len(s) : s[i] = "."
    THEN LET i == CHOOSE j \in 1..Len(s) : s[j] = "." /\ \A k \in 1..(j - 1) : s[k] # "."
         IN <<SubSeq(s, 1, i - 1)>> \o Split(SubSeq(s, i + 1, Len(s)))
    ELSE <<s>>

IsNumericToken(tok) == Len(tok) > 0 /\ \A i \in 1..Len(tok) : IsDigit(tok[i])

(* ----------------------------- utils.py --------------------------------- *)

Parsed(t) == [ok |-> TRUE, val |-> t]

CouldNotDecode == [ok |-> FALSE, val |-> <<>>]

RECURSIVE parse_as_oid_tuple(_)
parse_as_oid_tuple(v) ==
    CASE v.type = "tuple" ->
            IF \A i \in 1..Len(v.items) : v.items[i] >= 0
            THEN Parsed(v.items) ELSE CouldNotDecode
      [] v.type = "str" ->
            LET toks == Split(v.chars)
            IN  IF \A i \in 1..Len(toks) : IsNumericToken(toks[i])
                THEN Parsed([i \in 1..Len(toks) |-> ParseInt(toks[i])])
                ELSE CouldNotDecode
      [] v.type = "ObjectName" -> Parsed(v.oid)
      [] v.type = "ObjectIdentity" ->
            IF v.resolved THEN Parsed(v.oid) ELSE CouldNotDecode
      [] v.type = "ObjectType" -> parse_as_oid_tuple(v.identity)
      [] OTHER -> CouldNotDecode

RECURSIVE format_as_oid_string(_)
format_as_oid_string(t) ==
    IF Len(t) = 0 THEN <<>>
    ELSE IF Len(t) = 1 THEN IntToStr(t[1])
    ELSE IntToStr(t[1]) \o <<".">> \o format_as_oid_string(Tail(t))

\* ObjectIdentity.getMibSymbol() of the MIB library: (module, name, indexes).
getMibSymbol(identity) == <<"SNMPv2-MIB", "sym", Tail(identity.oid)>>

(* ------------------------------ call results ---------------------------- *)

NoAttr == [has |-> FALSE, val |-> <<>>]

Attr(t) == [has |-> TRUE, val |-> t]

Return(self, ret, n) == [self |-> self, exc |-> "none", ret |-> ret, parses |-> n]

Raise(self, exc, n) == [self |-> self, exc |-> exc, ret |-> "raised", parses |-> n]

(* -------------------------------- OID ----------------------------------- *)

\* Variant: decodes at construction.
OID__init__Eager(v) ==
    LET p == parse_as_oid_tuple(v)
    IN  [cls |-> "OID", raw |-> v, _parts |-> IF p.ok THEN Attr(p.val) ELSE NoAttr]

OID__init__(v) == [cls |-> "OID", raw |-> v, _parts |-> NoAttr]

\* Variant: a decoding failure is swallowed and the empty tuple is stored.
OID_initializeDefault(self) ==
    LET p == parse_as_oid_tuple(self.raw)
    IN  IF ~p.ok
        THEN Return([self EXCEPT !._parts = Attr(<<>>)], "None", 1)
        ELSE Return([self EXCEPT !._parts = Attr(p.val)], "None", 1)

OID_initialize(self) ==
    LET p == parse_as_oid_tuple(self.raw)
    IN  IF ~p.ok
        THEN Raise(self, "CouldNotDecodeOID", 1)
        ELSE Return([self EXCEPT !._parts = Attr(p.val)], "None", 1)

\* Variant: an ObjectType is unwrapped to the ObjectIdentity it carries.
OID_get_mib_symbolUnwrap(self) ==
    LET identity == IF self.raw.type = "ObjectType" THEN self.raw.identity ELSE self.raw
    IN  IF identity.type # "ObjectIdentity"
        THEN Raise(self, "NotImplementedError", 0)
        ELSE IF ~identity.resolved
        THEN Raise(self, "SmiError", 0)
        ELSE LET sym == getMibSymbol(identity)
             IN  Return(self, <<sym[2], [i \in 1..Len(sym[3]) |-> IntToStr(sym[3][i])]>>, 0)

OID_get_mib_symbol(self) ==
    IF self.raw.type # "ObjectIdentity"
    THEN Raise(self, "NotImplementedError", 0)
    ELSE IF ~self.raw.resolved
    THEN Raise(self, "SmiError", 0)
    ELSE LET sym == getMibSymbol(self.raw)
         IN  Return(self, <<sym[2], [i \in 1..Len(sym[3]) |-> IntToStr(sym[3][i])]>>, 0)

OID_resolve_as_tuple(self) ==
    LET r == OID_initialize(self)
    IN  IF r.exc # "none" THEN r
        ELSE Return(r.self, r.self._parts.val, r.parses)

\* Variant: resolves before looking at the kind of `raw`.
OID_maybe_resolve_as_object_typeEager(self) ==
    LET r == OID_resolve_as_tuple(self)
    IN  IF r.exc # "none" THEN r
        ELSE IF self.raw.type = "ObjectType"
        THEN Return(r.self, self.raw, r.parses)
        ELSE IF self.raw.type = "ObjectIdentity"
        THEN Return(r.self, ObjectType(self.raw), r.parses)
        ELSE Return(r.self, ObjectType(ObjectIdentity(r.ret, FALSE)), r.parses)

\* Variant: keeps the ObjectType it built in `raw`.
OID_maybe_resolve_as_object_typeKeep(self) ==
    IF self.raw.type = "ObjectType"
    THEN Return(self, self.raw, 0)
    ELSE IF self.raw.type = "ObjectIdentity"
    THEN Return([self EXCEPT !.raw = ObjectType(self.raw)], ObjectType(self.raw), 0)
    ELSE LET r == OID_resolve_as_tuple(self)
         IN  IF r.exc # "none" THEN r
             ELSE Return(r.self, ObjectType(ObjectIdentity(r.ret, FALSE)), r.parses)

OID_maybe_resolve_as_object_type(self) ==
    IF self.raw.type = "ObjectType"
    THEN Return(self, self.raw, 0)
    ELSE IF self.raw.type = "ObjectIdentity"
    THEN Return(self, ObjectType(self.raw), 0)
    ELSE LET r == OID_resolve_as_tuple(self)
         IN  IF r.exc # "none" THEN r
             ELSE Return(r.self, ObjectType(ObjectIdentity(r.ret, FALSE)), r.parses)

OID__str__(self) ==
    LET r == OID_resolve_as_tuple(self)
    IN  IF r.exc # "none" THEN r
        ELSE Return(r.self, format_as_oid_string(r.ret), r.parses)

\* Variant: compares the raw forms after resolving both sides.
OID__eq__Raw(self, other) ==
    IF other.cls # "OID"
    THEN [self |-> self, other |-> other, exc |-> "none", ret |-> FALSE,
          parses |-> 0, oparses |-> 0]
    ELSE LET a == OID_resolve_as_tuple(self)
         IN  IF a.exc # "none"
             THEN [self |-> a.self, other |-> other, exc |-> a.exc, ret |-> "raised",
                   parses |-> a.parses, oparses |-> 0]
             ELSE LET b == OID_resolve_as_tuple(other)
                  IN  IF b.exc # "none"
                      THEN [self |-> a.self, other |-> b.self, exc |-> b.exc,
                            ret |-> "raised", parses |-> a.parses, oparses |-> b.parses]
                      ELSE [self |-> a.self, other |-> b.self, exc |-> "none",
                            ret |-> (self.raw = other.raw),
                            parses |-> a.parses, oparses |-> b.parses]

\* self.__eq__(other); the result also carries `other` as the call left it.
OID__eq__(self, other) ==
    IF other.cls # "OID"
    THEN [self |-> self, other |-> other, exc |-> "none", ret |-> FALSE,
          parses |-> 0, oparses |-> 0]
    ELSE LET a == OID_resolve_as_tuple(self)
         IN  IF a.exc # "none"
             THEN [self |-> a.self, other |-> other, exc |-> a.exc, ret |-> "raised",
                   parses |-> a.parses, oparses |-> 0]
             ELSE LET b == OID_resolve_as_tuple(other)
                  IN  IF b.exc # "none"
                      THEN [self |-> a.self, other |-> b.self, exc |-> b.exc,
                            ret |-> "raised", parses |-> a.parses, oparses |-> b.parses]
                      ELSE [self |-> a.self, other |-> b.self, exc |-> "none",
                            ret |-> (a.ret = b.ret),
                            parses |-> a.parses, oparses |-> b.parses]

(* ------------------------------- Value ---------------------------------- *)

IsIdentifierTyped(v) == "type" \in DOMAIN v /\ v.type \in {"ObjectName", "ObjectIdentity"}

Value__init__(v) == [_value |-> IF IsIdentifierTyped(v) THEN OID__init__(v) ELSE v]

\* Variant: isinstance() against the counter classes.
Value_is_counterIsInstance(self) ==
    Return(self, Bases(self._value.cls) \cap SNMP_COUNTER_CLASSES # {}, 0)

Value_is_counter(self) == Return(self, self._value.cls \in SNMP_COUNTER_CLASSES, 0)

Value_is_gauge(self) == Return(self, self._value.cls \in SNMP_GAUGE_CLASSES, 0)

Value_is_opaque(self) == Return(self, self._value.cls = "Opaque", 0)

\* int(x) / float(x) of the codec's value objects.
Coerce(self) ==
    CASE self._value.cls \in NumericClasses -> Return(self, self._value.payload, 0)
      [] self._value.cls \in SentinelClasses -> Raise(self, "TypeError", 0)
      [] OTHER -> Raise(self, "ValueError", 0)

\* Variant: no OID guard, int() is applied to the OID wrapper itself.
Value__int__Unguarded(self) ==
    IF self._value.cls = "OID"
    THEN Raise(self, "TypeError", 0)
    ELSE Coerce(self)

Value__int__(self) ==
    IF self._value.cls = "OID"
    THEN Raise(self, "ValueError", 0)
    ELSE Coerce(self)

Value__float__(self) ==
    IF self._value.cls = "OID"
    THEN Raise(self, "ValueError", 0)
    ELSE IF Value_is_opaque(self).ret
    THEN Return(self, self._value.payload, 0)
    ELSE Coerce(self)

\* Variant: endOfMibView is treated like the two missing-data sentinels.
Value__bool__EndOfMib(self) ==
    IF self._value.cls = "OID"
    THEN Return(self, TRUE, 0)
    ELSE IF isSameTypeWith(noSuchInstance, self._value)
    THEN Return(self, FALSE, 0)
    ELSE IF isSameTypeWith(noSuchObject, self._value)
    THEN Return(self, FALSE, 0)
    ELSE IF isSameTypeWith(endOfMibView, self._value)
    THEN Return(self, FALSE, 0)
    ELSE Return(self, TRUE, 0)

Value__bool__(self) ==
    IF self._value.cls = "OID"
    THEN Return(self, TRUE, 0)
    ELSE IF isSameTypeWith(noSuchInstance, self._value)
    THEN Return(self, FALSE, 0)
    ELSE IF isSameTypeWith(noSuchObject, self._value)
    THEN Return(self, FALSE, 0)
    ELSE Return(self, TRUE, 0)

Value__nonzero__(self) == Value__bool__(self)

Value__str__(self) ==
    IF self._value.cls = "OID"
    THEN LET r == OID__str__(self._value)
         IN  [r EXCEPT !.self = [_value |-> r.self]]
    ELSE IF isSameTypeWith(noSuchInstance, self._value)
    THEN Return(self, "NoSuchInstance", 0)
    ELSE IF isSameTypeWith(noSuchObject, self._value)
    THEN Return(self, "NoSuchObject", 0)
    ELSE IF isSameTypeWith(endOfMibView, self._value)
    THEN Return(self, "EndOfMibView", 0)
    ELSE Return(self, IntToStr(self._value.payload), 0)

(* ------------------------------ Variable -------------------------------- *)

Variable__init__(o, v) == [oid |-> o, value |-> v]

(* ------------------------------ the calls ------------------------------- *)

NoOther == [kind |-> "-", resolved |-> CouldNotDecode]

Outcome(op, r, other) ==
    [op |-> op, exc |-> r.exc, ret |-> r.ret, parses |-> r.parses, other |-> other]

\* The inputs the polled Variable is built from: every identifier form beside
\* a plain typed value, and every value beside a plain dotted identifier.
BasicRaw == StrValue(<<"1">>)

BasicInput == Asn1("Integer", 1)

Inputs ==
    {<<r, BasicInput>> : r \in RawValues} \cup {<<BasicRaw, v>> : v \in ValueInputs}

Init ==
    \E in \in Inputs :
        LET variable == Variable__init__(OID__init__(in[1]), Value__init__(in[2]))
        IN  /\ oid = variable.oid
            /\ value = variable.value
            /\ parses = 0
            /\ last = [op |-> "__init__", exc |-> "none", ret |-> "None",
                       parses |-> 0, other |-> NoOther]

\* A call of a method of variable.oid.
OIDCall(op, r) ==
    /\ parses + r.parses <= MaxParses
    /\ oid' = r.self
    /\ parses' = parses + r.parses
    /\ last' = Outcome(op, r, NoOther)
    /\ UNCHANGED value

\* A call of a method of variable.value.
ValueCall(op, r) ==
    /\ value' = r.self
    /\ last' = Outcome(op, r, NoOther)
    /\ UNCHANGED <<oid, parses>>

ResolveAsTuple == OIDCall("OID.resolve_as_tuple", OID_resolve_as_tuple(oid))

GetMibSymbol == OIDCall("OID.get_mib_symbol", OID_get_mib_symbol(oid))

MaybeResolveAsObjectType ==
    OIDCall("OID.maybe_resolve_as_object_type", OID_maybe_resolve_as_object_type(oid))

Str == OIDCall("OID.__str__", OID__str__(oid))

OtherOf(x) ==
    IF x.cls = "OID"
    THEN [kind |-> x.raw.type, resolved |-> parse_as_oid_tuple(x.raw)]
    ELSE [kind |-> "non-OID", resolved |-> CouldNotDecode]

\* variable.oid == OID(v), for a temporary OID(v)
EqFresh ==
    \E v \in RawValues :
        LET other == OID__init__(v)
            r == OID__eq__(oid, other)
        IN  /\ parses + r.parses <= MaxParses
            /\ oid' = r.self
            /\ parses' = parses + r.parses
            /\ last' = Outcome("OID.__eq__", r, OtherOf(other))
            /\ UNCHANGED value

\* variable.oid == variable.value._value (an OID or a typed value)
EqInner ==
    LET other == value._value
        r == OID__eq__(oid, other)
    IN  /\ parses + r.parses <= MaxParses
        /\ oid' = r.self
        /\ value' = [_value |-> r.other]
        /\ parses' = parses + r.parses
        /\ last' = Outcome("OID.__eq__", r, OtherOf(other))

\* variable.oid == variable.oid
EqSelf ==
    LET r == OID__eq__(oid, oid)
    IN  /\ parses + r.parses + r.oparses <= MaxParses
        /\ oid' = r.other
        /\ parses' = parses + r.parses + r.oparses
        /\ last' = [Outcome("OID.__eq__", r, OtherOf(oid)) EXCEPT !.parses = r.parses + r.oparses]
        /\ UNCHANGED value

ValueIsCounter == ValueCall("Value.is_counter", Value_is_counter(value))

ValueIsGauge == ValueCall("Value.is_gauge", Value_is_gauge(value))

ValueIsOpaque == ValueCall("Value.is_opaque", Value_is_opaque(value))

ValueInt == ValueCall("Value.__int__", Value__int__(value))

ValueFloat == ValueCall("Value.__float__", Value__float__(value))

ValueBool == ValueCall("Value.__bool__", Value__bool__(value))

ValueNonzero == ValueCall("Value.__nonzero__", Value__nonzero__(value))

ValueStr == ValueCall("Value.__str__", Value__str__(value))

Next ==
    \/ ResolveAsTuple
    \/ GetMibSymbol
    \/ MaybeResolveAsObjectType
    \/ Str
    \/ EqFresh
    \/ EqInner
    \/ EqSelf
    \/ ValueIsCounter
    \/ ValueIsGauge
    \/ ValueIsOpaque
    \/ ValueInt
    \/ ValueFloat
    \/ ValueBool
    \/ ValueNonzero
    \/ ValueStr

Spec == Init /\ [][Next]_vars

(* ------------------------------ properties ------------------------------ *)

Resolves(raw) == parse_as_oid_tuple(raw).ok

ResolveOps == {"OID.resolve_as_tuple", "OID.__str__"}

HandleKinds == {"ObjectType", "ObjectIdentity"}

InnerIsOID == value._value.cls = "OID"

\* C1: an OID whose raw form is valid has its raw form parsed at most once,
\* however many times resolve_as_tuple, __str__ and __eq__ are called on it.
C1_ParsedAtMostOnce == Resolves(oid.raw) => parses <= 1

\* C2: every counter tag is a counter and not a gauge, every gauge tag is a
\* gauge and not a counter; CounterBasedGauge64 is a gauge although the codec
\* derives it from Counter64.
C2_Classification ==
    LET cls == value._value.cls
        counters == {"Counter32", "Counter64", "ZeroBasedCounter64"}
        gauges == {"Gauge32", "Integer", "Integer32", "Unsigned32", "CounterBasedGauge64"}
    IN  /\ last.op = "Value.is_counter" /\ cls \in counters \cup gauges
            => last.exc = "none" /\ last.ret = (cls \in counters)
        /\ last.op = "Value.is_gauge" /\ cls \in counters \cup gauges
            => last.exc = "none" /\ last.ret = (cls \in gauges)

C2_Witness ==
    /\ value._value.cls = "CounterBasedGauge64"
    /\ "Counter64" \in Bases(value._value.cls)
    /\ last.op = "Value.is_counter"
    /\ last.ret = FALSE

\* C3: maybe_resolve_as_object_type returns an ObjectType raw form itself and
\* wraps an ObjectIdentity raw form, in both cases without parsing; it parses
\* only when raw is a numeric sequence or a dotted string.
C3_NoForcedResolution ==
    last.op = "OID.maybe_resolve_as_object_type" =>
        /\ oid.raw.type = "ObjectType"
            => last.exc = "none" /\ last.ret = oid.raw /\ last.parses = 0
        /\ oid.raw.type = "ObjectIdentity"
            => last.exc = "none" /\ last.ret = ObjectType(oid.raw) /\ last.parses = 0
        /\ last.parses > 0 => oid.raw.type \in {"tuple", "ObjectName", "str"}
        /\ oid.raw.type \in HandleKinds /\ parses = 0 => ~oid._parts.has

C3_Witness ==
    /\ last.op = "OID.maybe_resolve_as_object_type"
    /\ oid.raw.type = "ObjectIdentity"
    /\ ~oid.raw.resolved
    /\ last.exc = "none"
    /\ parses = 0

\* C4: for two OIDs that both resolve, whatever their raw forms, __eq__
\* returns True exactly when the resolved tuples are equal.
C4_EqualityIffTuples ==
    /\ last.op = "OID.__eq__"
    /\ last.other.kind # "non-OID"
    /\ Resolves(oid.raw)
    /\ last.other.resolved.ok
    => /\ last.exc = "none"
       /\ last.ret = (parse_as_oid_tuple(oid.raw).val = last.other.resolved.val)

C4_Witness ==
    /\ last.op = "OID.__eq__"
    /\ oid.raw.type = "str"
    /\ last.other.kind = "tuple"
    /\ Len(last.other.resolved.val) = 2
    /\ last.exc = "none"
    /\ last.ret = TRUE

\* C5 as stated: when raw cannot be parsed, every resolve_as_tuple, __str__
\* and __eq__ call on the OID raises CouldNotDecodeOID and stores no parts.
C5_EveryCallFails ==
    ~Resolves(oid.raw) =>
        /\ ~oid._parts.has
        /\ last.op \in ResolveOps \cup {"OID.__eq__"}
            => last.exc = "CouldNotDecodeOID"

\* C5 amended: when raw cannot be parsed, every resolve_as_tuple and __str__
\* call, and every __eq__ call whose other operand is an OID, raises
\* CouldNotDecodeOID and stores no parts; so does __eq__ on a valid OID
\* against an OID that cannot be parsed.
C5_EveryCallBetweenOIDsFails ==
    /\ ~Resolves(oid.raw) =>
        /\ ~oid._parts.has
        /\ last.op \in ResolveOps => last.exc = "CouldNotDecodeOID"
        /\ last.op = "OID.__eq__" /\ last.other.kind # "non-OID"
            => last.exc = "CouldNotDecodeOID"
    /\ InnerIsOID /\ ~Resolves(value._value.raw) => ~value._value._parts.has
    /\ last.op = "OID.__eq__" /\ last.other.kind \notin {"non-OID", "-"}
            /\ ~last.other.resolved.ok
        => last.exc = "CouldNotDecodeOID"

C5_Witness ==
    /\ ~Resolves(oid.raw)
    /\ oid.raw.type = "str"
    /\ last.op = "OID.__eq__"
    /\ last.other.kind = "tuple"
    /\ last.other.resolved.ok
    /\ last.exc = "CouldNotDecodeOID"
    /\ parses = MaxParses

\* C6: a Value built from an ObjectIdentifier or ObjectIdentity raises
\* ValueError from __int__ and __float__ without parsing the wrapped OID, and
\* __bool__ returns True.
C6_IdentifierNotNumeric ==
    InnerIsOID =>
        /\ last.op \in {"Value.__int__", "Value.__float__"}
            => last.exc = "ValueError" /\ last.parses = 0
        /\ last.op \in {"Value.__bool__", "Value.__nonzero__"}
            => last.exc = "none" /\ last.ret = TRUE /\ last.parses = 0

C6_Witness ==
    /\ InnerIsOID
    /\ value._value.raw.type = "ObjectIdentity"
    /\ ~value._value._parts.has
    /\ last.op = "Value.__int__"
    /\ last.exc = "ValueError"

\* C7: __bool__ returns False exactly for noSuchInstance and noSuchObject.
C7_BoolFalseOnlyForMissing ==
    last.op \in {"Value.__bool__", "Value.__nonzero__"} =>
        /\ last.exc = "none"
        /\ last.ret = (value._value.cls \notin {"NoSuchInstance", "NoSuchObject"})

C7_Witness ==
    /\ last.op = "Value.__bool__"
    /\ value._value.cls = "EndOfMibView"
    /\ last.ret = TRUE

\* C8: get_mib_symbol returns only when raw is an ObjectIdentity; for every
\* other raw form it raises NotImplementedError, and it never parses raw or
\* changes the OID.
C8_MibSymbolOnlyForIdentity ==
    [][last'.op = "OID.get_mib_symbol" =>
        /\ oid' = oid
        /\ parses' = parses
        /\ last'.parses = 0
        /\ last'.exc = "none" => oid.raw.type = "ObjectIdentity"
        /\ oid.raw.type # "ObjectIdentity" => last'.exc = "NotImplementedError"]_vars

C8_Witness ==
    /\ last.op = "OID.get_mib_symbol"
    /\ oid.raw.type = "ObjectType"
    /\ oid.raw.identity.resolved
    /\ last.exc = "NotImplementedError"

\* C9: no call changes raw, and parts, once set, keeps its tuple.
C9_RawAndPartsStable ==
    [][/\ oid'.raw = oid.raw
       /\ oid._parts.has => oid'._parts = oid._parts
       /\ value'._value.cls = value._value.cls
       /\ InnerIsOID =>
            /\ value'._value.raw = value._value.raw
            /\ value._value._parts.has => value'._value._parts = value._value._parts]_vars

C9_Witness ==
    /\ oid._parts.has
    /\ parses = MaxParses
    /\ last.op = "OID.maybe_resolve_as_object_type"

\* C10: construction, get_mib_symbol, the classification calls and __bool__
\* never parse and never raise CouldNotDecodeOID; parts is absent as long as
\* raw has not been parsed by a resolving call.
C10_Lazy ==
    LET lazyOps == {"__init__", "OID.get_mib_symbol", "Value.is_counter", "Value.is_gauge",
                    "Value.is_opaque", "Value.__bool__", "Value.__nonzero__"}
    IN  /\ parses = 0 => ~oid._parts.has
        /\ last.op \in lazyOps => last.parses = 0 /\ last.exc # "CouldNotDecodeOID"
        /\ last.op = "__init__" /\ InnerIsOID => ~value._value._parts.has

C10_Witness ==
    /\ ~Resolves(oid.raw)
    /\ last.op = "Value.__bool__"
    /\ last.exc = "none"
    /\ parses = 0
    /\ ~oid._parts.has

====
